---------------------------- MODULE Spec2Model ----------------------------
(***************************************************************************)
(* pngme: PNG chunk type codes, chunks (length, type, data, CRC-32), the   *)
(* PNG container and the encode / decode / remove / print commands that    *)
(* act on files.                                                           *)
(*                                                                         *)
(* Bytes are naturals in 0..255, byte slices and Vec<u8> are sequences of  *)
(* bytes, a &str is the sequence of its Unicode code points.  A Result is  *)
(* a record with field ok; Ok(v) has field val and Err(e) has field err.   *)
(***************************************************************************)
EXTENDS Integers, Sequences, FiniteSets, TLC

VARIABLES
    tbytes,     \* SpecType: the [u8; 4] handed to ChunkType::try_from
    tres,       \* SpecType: what ChunkType::try_from returned, with the flags
    chunk,      \* SpecChunk: the Chunk built by Chunk::new
    value,      \* SpecChunk: the byte slice handed to Chunk::try_from
    edits,      \* SpecChunk: what was done to the slice since as_bytes
    res,        \* SpecChunk: what Chunk::try_from returned
    fs,         \* Spec: the files, path -> bytes (NoFile when absent)
    last,       \* Spec: the last command run and what it did
    e2e         \* Spec: progress of an encode / decode / remove sequence

vars == <<tbytes, tres, chunk, value, edits, res, fs, last, e2e>>

---------------------------------------------------------------------------
(* Results *)

Ok(v) == [ok |-> TRUE, val |-> v]

Err(e) == [ok |-> FALSE, err |-> e]

---------------------------------------------------------------------------
(* u32 and bit arithmetic.  A u32 is the record of its two 16-bit halves    *)
(* [hi, lo], so that every u32 value, 0 .. 2^32 - 1, can be written.       *)

\* `n as u32` of a usize n: the low 32 bits
U32(n) == [hi |-> (n \div 65536) % 65536, lo |-> n % 65536]

\* u32 subtraction, wrapping as the release build does
SubU32(a, b) ==
    IF a.lo >= b.lo
    THEN [hi |-> (a.hi - b.hi) % 65536, lo |-> a.lo - b.lo]
    ELSE [hi |-> (a.hi - b.hi - 1) % 65536, lo |-> a.lo - b.lo + 65536]

\* `n as usize` of a u32 n (defined here while n < 2^31)
Usize(n) == n.hi * 65536 + n.lo

RECURSIVE XorBits(_, _, _)
XorBits(a, b, n) ==
    IF n = 0 THEN 0
    ELSE ((a + b) % 2) + 2 * XorBits(a \div 2, b \div 2, n - 1)

RECURSIVE AndBits(_, _, _)
AndBits(a, b, n) ==
    IF n = 0 THEN 0
    ELSE ((a % 2) * (b % 2)) + 2 * AndBits(a \div 2, b \div 2, n - 1)

\* u8 & u8
BitAnd8(a, b) == AndBits(a, b, 8)

\* u4 ^ u4, tabulated
XorNibbleTable == [i \in 0..255 |-> XorBits(i \div 16, i % 16, 4)]

\* u8 ^ u8, nibble by nibble
XorByte(a, b) ==
    XorNibbleTable[(a \div 16) * 16 + (b \div 16)] * 16
        + XorNibbleTable[(a % 16) * 16 + (b % 16)]

Xor16(a, b) ==
    XorByte(a \div 256, b \div 256) * 256 + XorByte(a % 256, b % 256)

\* u32 ^ u32
Xor32(a, b) == [hi |-> Xor16(a.hi, b.hi), lo |-> Xor16(a.lo, b.lo)]

\* u32 >> 1 and u32 >> 8
Shr1(a) == [hi |-> a.hi \div 2, lo |-> (a.hi % 2) * 32768 + a.lo \div 2]

Shr8(a) == [hi |-> a.hi \div 256, lo |-> (a.hi % 256) * 256 + a.lo \div 256]

\* The bytes written least significant first
to_le_bytes(n) == <<n.lo % 256, n.lo \div 256, n.hi % 256, n.hi \div 256>>

\* u32::to_be_bytes
to_be_bytes(n) == <<n.hi \div 256, n.hi % 256, n.lo \div 256, n.lo % 256>>

\* The bytes read least significant first
from_le_bytes(b) == [hi |-> b[4] * 256 + b[3], lo |-> b[2] * 256 + b[1]]

\* u32::from_be_bytes
from_be_bytes(b) == [hi |-> b[1] * 256 + b[2], lo |-> b[3] * 256 + b[4]]

---------------------------------------------------------------------------
(* CRC-32/ISO-HDLC: reflected polynomial 0xEDB88320, init and xorout       *)
(* 0xFFFFFFFF, as Crc::<u32>::new(&crc::CRC_32_ISO_HDLC).checksum does     *)

CRC_POLY_REFLECTED == [hi |-> 60856, lo |-> 33568]

CRC_INIT == [hi |-> 65535, lo |-> 65535]

CRC_XOROUT == [hi |-> 65535, lo |-> 65535]

RECURSIVE CrcTableEntry(_, _)
CrcTableEntry(c, k) ==
    IF k = 0 THEN c
    ELSE CrcTableEntry(IF c.lo % 2 = 1
                          THEN Xor32(Shr1(c), CRC_POLY_REFLECTED)
                          ELSE Shr1(c),
                       k - 1)

CrcTable == [i \in 0..255 |-> CrcTableEntry(U32(i), 8)]

\* The table-driven update of the register over the first n bytes
RECURSIVE CrcUpdate(_, _)
CrcUpdate(bytes, n) ==
    IF n = 0 THEN CRC_INIT
    ELSE LET crc == CrcUpdate(bytes, n - 1) IN
         Xor32(CrcTable[XorByte(crc.lo % 256, bytes[n])], Shr8(crc))

checksum(bytes) == Xor32(CrcUpdate(bytes, Len(bytes)), CRC_XOROUT)

---------------------------------------------------------------------------
(* Text *)

\* str::as_bytes: the UTF-8 encoding of the code points
Utf8Char(c) ==
    IF c < 128 THEN <<c>>
    ELSE IF c < 2048 THEN <<192 + (c \div 64), 128 + (c % 64)>>
    ELSE IF c < 65536
        THEN <<224 + (c \div 4096), 128 + ((c \div 64) % 64), 128 + (c % 64)>>
    ELSE <<240 + (c \div 262144), 128 + ((c \div 4096) % 64),
           128 + ((c \div 64) % 64), 128 + (c % 64)>>

RECURSIVE str_as_bytes(_)
str_as_bytes(s) ==
    IF s = <<>> THEN <<>> ELSE Utf8Char(Head(s)) \o str_as_bytes(Tail(s))

---------------------------------------------------------------------------
(* chunk_type.rs *)

CHUNK_PROPERTY_SET_MASK == 32

Ancillary == 0

Private == 1

Reserved == 2

SafeToCopy == 3

\* One range from 'A' to 'z', which takes in the six characters between
is_ascii_A_to_z(val) == 65 <= val /\ val <= 122

\* u8::is_ascii_alphabetic
is_ascii_alphabetic(val) ==
    \/ (65 <= val /\ val <= 90)
    \/ (97 <= val /\ val <= 122)

\* The test of bit 4 instead of bit 5
bit_4_is_zero(byte) == BitAnd8(byte, 16) = 0

bit_is_zero(byte) == BitAnd8(byte, CHUNK_PROPERTY_SET_MASK) = 0

bytes_of(ct) == ct.bytes

\* Rust arrays are indexed from 0, sequences from 1
is_critical(ct) == bit_is_zero(ct.bytes[Ancillary + 1])

is_public(ct) == bit_is_zero(ct.bytes[Private + 1])

is_reserved_bit_valid(ct) == bit_is_zero(ct.bytes[Reserved + 1])

is_safe_to_copy(ct) == ~bit_is_zero(ct.bytes[SafeToCopy + 1])

is_valid(ct) == is_reserved_bit_valid(ct)

\* impl TryFrom<[u8; 4]> for ChunkType
ChunkType_try_from(v) ==
    IF \A i \in 1..4 : is_ascii_alphabetic(v[i])
    THEN Ok([bytes |-> v])
    ELSE Err([kind |-> "NotASCIILetters"])

\* impl FromStr for ChunkType
ChunkType_from_str(s) ==
    LET b == str_as_bytes(s) IN
    IF Len(b) # 4
    THEN Err([kind |-> "InvalidNameLenght", expected |-> 4, actual |-> Len(b)])
    ELSE ChunkType_try_from(b)

\* The type rendered in upper case
ChunkType_to_string_upper(ct) ==
    [i \in 1..4 |-> IF ct.bytes[i] >= 97 THEN ct.bytes[i] - 32 ELSE ct.bytes[i]]

\* impl fmt::Display for ChunkType: char::from(u8) is the code point of the byte
ChunkType_to_string(ct) == [i \in 1..4 |-> ct.bytes[i]]

---------------------------------------------------------------------------
(* chunk.rs *)

MIN_CHUNK_SIZE == 12

\* The checksum taken over the data alone
crc_bytes_data_only(chunk_type, data) == data

\* Chunk::new, lines 23-28: the bytes the checksum is taken over
crc_bytes(chunk_type, data) == bytes_of(chunk_type) \o data

\* Chunk::new
Chunk_new(chunk_type, data) ==
    [data |-> data,
     chunk_type |-> chunk_type,
     crc |-> checksum(crc_bytes(chunk_type, data))]

\* Chunk::length
length(c) == U32(Len(c.data))

\* The serialization that leaves the crc out
as_bytes_without_crc(c) ==
    to_be_bytes(U32(Len(c.data))) \o bytes_of(c.chunk_type) \o c.data

\* Chunk::as_bytes
as_bytes(c) ==
    to_be_bytes(U32(Len(c.data)))
        \o bytes_of(c.chunk_type) \o c.data \o to_be_bytes(c.crc)

\* The crc field taken as it was read, with no comparison
checked_as_read(crc, c) == Ok([c EXCEPT !.crc = crc])

\* try_from, lines 134-140: the chunk is built anew and its crc compared
\* with the one read
checked(crc, c) ==
    IF crc # c.crc
    THEN Err([kind |-> "InvalidChecksum"])
    ELSE Ok(c)

\* try_from, lines 122-140: the type, the data and the crc are read
read_chunk(v, n, chunk_type) ==
    IF ~chunk_type.ok
    THEN Err([kind |-> "InvalidChunkType", source |-> chunk_type.err])
    ELSE checked(from_be_bytes(SubSeq(v, 9 + n, 12 + n)),
                 Chunk_new(chunk_type.val, SubSeq(v, 9, 8 + n)))

\* impl TryFrom<&[u8]> for Chunk.  After the length check the slice holds
\* exactly 12 + data_lenght bytes, so no read_exact can fail.
Chunk_try_from(v) ==
    IF Len(v) < 12 THEN Err([kind |-> "Incomplete"])
    ELSE
    LET data_lenght == from_be_bytes(SubSeq(v, 1, 4)) IN
    IF SubU32(U32(Len(v)), U32(MIN_CHUNK_SIZE)) # data_lenght
    THEN Err([kind |-> "InvalidLengthField",
              expected |-> SubU32(U32(Len(v)), U32(12)),
              found |-> data_lenght])
    ELSE read_chunk(v, Usize(data_lenght), ChunkType_try_from(SubSeq(v, 5, 8)))

---------------------------------------------------------------------------
(* Inputs *)

\* The code points of "RuSt", "ruSt", "Rust", "Ru1t", "RuS" and of
\* U+00E9 followed by "St" (three characters, four bytes)
TypeTexts ==
    {<<82, 117, 83, 116>>, <<114, 117, 83, 116>>, <<82, 117, 115, 116>>,
     <<82, 117, 49, 116>>, <<82, 117, 83>>, <<233, 83, 116>>}

\* 'R', 'u' and '1'
TypeByteSamples == {82, 117, 49}

NoChunk == [none |-> TRUE]

NotRun == [done |-> FALSE]

TypeIdle == tbytes = <<>> /\ tres = NotRun

ChunkIdle == chunk = NoChunk /\ value = <<>> /\ edits = {} /\ res = NotRun

NoFile == [exists |-> FALSE]

NoCommand == [cmd |-> "none"]

NoScenario == [stage |-> "none"]

FilesIdle ==
    /\ fs = [p \in {} |-> NoFile]
    /\ last = NoCommand
    /\ e2e = NoScenario

---------------------------------------------------------------------------
(* SpecType: ChunkType::try_from and ChunkType::from_str on their inputs *)

Flags(ct) ==
    [critical |-> is_critical(ct),
     public |-> is_public(ct),
     reserved_bit_valid |-> is_reserved_bit_valid(ct),
     valid |-> is_valid(ct),
     safe_to_copy |-> is_safe_to_copy(ct)]

Ran(via, r) ==
    [done |-> TRUE, via |-> via, result |-> r,
     flags |-> IF r.ok THEN Flags(r.val) ELSE NoChunk]

\* ChunkType::try_from(tbytes)
TypeTryFrom ==
    /\ ~tres.done
    /\ Len(tbytes) = 4
    /\ tres' = Ran("try_from", ChunkType_try_from(tbytes))
    /\ UNCHANGED <<tbytes, chunk, value, edits, res, fs, last, e2e>>

\* ChunkType::from_str(s)
TypeFromStr ==
    /\ ~tres.done
    /\ \E s \in TypeTexts :
        /\ tbytes' = str_as_bytes(s)
        /\ tres' = Ran("from_str", ChunkType_from_str(s))
    /\ UNCHANGED <<chunk, value, edits, res, fs, last, e2e>>

\* Every byte value at one position, the other three from the samples
TypeInit ==
    /\ \E p \in 1..4, b \in 0..255, f \in [1..4 -> TypeByteSamples] :
        tbytes = [f EXCEPT ![p] = b]
    /\ tres = NotRun
    /\ ChunkIdle
    /\ FilesIdle

TypeNext == TypeTryFrom \/ TypeFromStr

SpecType == TypeInit /\ [][TypeNext]_vars

\* The ASCII letters, 'A'..'Z' and 'a'..'z'
Letters == (65..90) \cup (97..122)

\* bit 0x20 of a byte is clear
Bit5Clear(b) == (b \div 32) % 2 = 0

\* C5: ChunkType::try_from on 4 bytes succeeds exactly when each of the 4
\* bytes is an ASCII letter; it then stores the input bytes, and otherwise
\* fails with NotASCIILetters.
C5_TypeValidation ==
    (tres.done /\ Len(tbytes) = 4) =>
        /\ tres.result.ok <=> (\A i \in 1..4 : tbytes[i] \in Letters)
        /\ tres.result.ok => tres.result.val.bytes = tbytes
        /\ ~tres.result.ok => tres.result.err.kind = "NotASCIILetters"

\* "Ru1t" is refused
C5_Witness ==
    /\ tres.done
    /\ tbytes = <<82, 117, 49, 116>>
    /\ ~tres.result.ok
    /\ tres.result.err.kind = "NotASCIILetters"

\* C6: for a valid ChunkType b0..b3, is_critical iff bit 0x20 of b0 is
\* clear, is_public iff bit 0x20 of b1 is clear, is_reserved_bit_valid and
\* is_valid iff bit 0x20 of b2 is clear, is_safe_to_copy iff bit 0x20 of b3
\* is set.
C6_BitFlags ==
    (tres.done /\ tres.result.ok) =>
        /\ tres.flags.critical <=> Bit5Clear(tbytes[1])
        /\ tres.flags.public <=> Bit5Clear(tbytes[2])
        /\ tres.flags.reserved_bit_valid <=> Bit5Clear(tbytes[3])
        /\ tres.flags.valid <=> Bit5Clear(tbytes[3])
        /\ tres.flags.safe_to_copy <=> ~Bit5Clear(tbytes[4])

\* "RuSt" is critical, private, reserved-bit valid and safe to copy
C6_Witness ==
    /\ tres.done
    /\ tbytes = <<82, 117, 83, 116>>
    /\ tres.result.ok
    /\ tres.flags.critical
    /\ ~tres.flags.public
    /\ tres.flags.reserved_bit_valid
    /\ tres.flags.valid
    /\ tres.flags.safe_to_copy

---------------------------------------------------------------------------
(* SpecChunk: Chunk::new, Chunk::as_bytes and Chunk::try_from, on chunks   *)
(* and on slices that differ from a chunk's bytes by a flipped bit, a      *)
(* rewritten length field or a byte more or less                           *)

MaxDataLen == 2

\* The chunk types "RuSt" and "ruSt"
ChunkTypeSamples == {[bytes |-> <<82, 117, 83, 116>>], [bytes |-> <<114, 117, 83, 116>>]}

\* 0 and 'h'
DataByteSamples == {0, 104}

DataSamples == UNION {[1..n -> DataByteSamples] : n \in 0..MaxDataLen}

\* Length fields: the small ones, and ones with the high bytes set
LengthFieldSamples ==
    {<<0, 0, 0, n>> : n \in 0..(MaxDataLen + 2)}
        \cup {<<255, 255, 255, 255>>, <<1, 0, 0, 0>>, <<0, 0, 1, 0>>}

Edit(op, a, b) == [op |-> op, a |-> a, b |-> b]

NotYet(op) == \A e \in edits : e.op # op

\* byte with bit k (0..7) flipped
FlipBitOf(byte, k) == XorByte(byte, 2 ^ k)

\* Chunk::new(t, d)
ChunkNew ==
    /\ chunk = NoChunk
    /\ \E t \in ChunkTypeSamples, d \in DataSamples : chunk' = Chunk_new(t, d)
    /\ UNCHANGED <<tbytes, tres, value, edits, res, fs, last, e2e>>

\* chunk.as_bytes()
ChunkAsBytes ==
    /\ chunk # NoChunk
    /\ value = <<>>
    /\ value' = as_bytes(chunk)
    /\ UNCHANGED <<tbytes, tres, chunk, edits, res, fs, last, e2e>>

\* One bit of the slice is flipped
FlipBit ==
    /\ value # <<>>
    /\ res = NotRun
    /\ NotYet("flip")
    /\ \E i \in 1..Len(value), k \in 0..7 :
        /\ value' = [value EXCEPT ![i] = FlipBitOf(value[i], k)]
        /\ edits' = edits \cup {Edit("flip", i, k)}
    /\ UNCHANGED <<tbytes, tres, chunk, res, fs, last, e2e>>

\* The length field of the slice is overwritten
SetLengthField ==
    /\ Len(value) >= 4
    /\ res = NotRun
    /\ NotYet("setlen")
    /\ \E f \in LengthFieldSamples :
        /\ value' = f \o SubSeq(value, 5, Len(value))
        /\ edits' = edits \cup {Edit("setlen", f[1], f[4])}
    /\ UNCHANGED <<tbytes, tres, chunk, res, fs, last, e2e>>

\* The slice gets one more byte, or loses its last one
Resize ==
    /\ value # <<>>
    /\ res = NotRun
    /\ NotYet("resize")
    /\ \/ /\ value' = Append(value, 0)
          /\ edits' = edits \cup {Edit("resize", 1, 0)}
       \/ /\ value' = SubSeq(value, 1, Len(value) - 1)
          /\ edits' = edits \cup {Edit("resize", 0, 0)}
    /\ UNCHANGED <<tbytes, tres, chunk, res, fs, last, e2e>>

\* Chunk::try_from(value)
ChunkTryFrom ==
    /\ value # <<>>
    /\ ~res.done
    /\ res' = [done |-> TRUE, result |-> Chunk_try_from(value)]
    /\ UNCHANGED <<tbytes, tres, chunk, value, edits, fs, last, e2e>>

\* The chunk a successful parse returned is serialized in its turn
ChunkReserialize ==
    /\ res.done
    /\ res.result.ok
    /\ chunk' = res.result.val
    /\ value' = as_bytes(res.result.val)
    /\ edits' = {}
    /\ res' = [done |-> FALSE, reparse |-> TRUE]
    /\ UNCHANGED <<tbytes, tres, fs, last, e2e>>

ChunkInit == TypeIdle /\ ChunkIdle /\ FilesIdle

ChunkNext ==
    \/ ChunkNew
    \/ ChunkAsBytes
    \/ FlipBit
    \/ SetLengthField
    \/ Resize
    \/ ChunkTryFrom
    \/ ChunkReserialize

SpecChunk == ChunkInit /\ [][ChunkNext]_vars

\* The slice is a chunk's bytes with one bit flipped, in the type or in the
\* data, and nothing else done to it
OneFlip(e) ==
    /\ edits = {e}
    /\ e.op = "flip"
    /\ 5 <= e.a
    /\ e.a <= Len(value) - 4

\* The length field of the slice holds the number n
LengthFieldIs(n) ==
    /\ value[1] = 0
    /\ value[2] = 0
    /\ value[3] * 256 + value[4] = n

\* C1: parsing the bytes as_bytes gives for a chunk succeeds and returns a
\* chunk with the same type, data and crc.
C1_ChunkRoundTrip ==
    (res.done /\ edits = {}) =>
        /\ res.result.ok
        /\ res.result.val.chunk_type = chunk.chunk_type
        /\ res.result.val.data = chunk.data
        /\ res.result.val.crc = chunk.crc

\* A chunk with two bytes of data has been serialized and parsed
C1_Witness ==
    /\ res.done
    /\ edits = {}
    /\ Len(chunk.data) = 2
    /\ Len(value) = 14
    /\ res.result.ok

\* C3 as stated: one flipped bit in the type or the data, the length and
\* crc fields untouched, makes the parse fail with InvalidChecksum.
C3_FlipGivesInvalidChecksum ==
    \A e \in edits :
        (res.done /\ OneFlip(e)) =>
            /\ ~res.result.ok
            /\ res.result.err.kind = "InvalidChecksum"

\* C3 amended: one flipped bit in the data, or in a type byte that is still
\* an ASCII letter, makes the parse fail with InvalidChecksum; one flipped
\* bit that leaves a type byte no ASCII letter makes it fail with
\* InvalidChunkType (NotASCIILetters).
C3_FlipDetected ==
    \A e \in edits :
        (res.done /\ OneFlip(e)) =>
            /\ ~res.result.ok
            /\ IF e.a <= 8 /\ value[e.a] \notin Letters
               THEN /\ res.result.err.kind = "InvalidChunkType"
                    /\ res.result.err.source.kind = "NotASCIILetters"
               ELSE res.result.err.kind = "InvalidChecksum"

\* A bit of a type byte was flipped, the byte is still a letter, and the
\* parse failed on the checksum
C3_Witness ==
    \E e \in edits :
        /\ res.done
        /\ OneFlip(e)
        /\ e.a <= 8
        /\ value[e.a] \in Letters
        /\ res.result.err.kind = "InvalidChecksum"

\* C4: a slice of 12 bytes or more whose length field is not its length
\* less 12 fails with InvalidLengthField, expected = length - 12 and found =
\* the length field, whatever its type bytes and crc field are.
C4_LengthEnforced ==
    (res.done /\ Len(value) >= 12 /\ ~LengthFieldIs(Len(value) - 12)) =>
        /\ ~res.result.ok
        /\ res.result.err.kind = "InvalidLengthField"
        /\ res.result.err.expected = [hi |-> 0, lo |-> Len(value) - 12]
        /\ res.result.err.found.hi = value[1] * 256 + value[2]
        /\ res.result.err.found.lo = value[3] * 256 + value[4]

\* A slice with the length field 0xFFFFFFFF and a type byte that is no
\* letter was refused for its length field
C4_Witness ==
    /\ res.done
    /\ Len(value) >= 12
    /\ SubSeq(value, 1, 4) = <<255, 255, 255, 255>>
    /\ \E i \in 5..8 : value[i] \notin Letters
    /\ res.result.err.kind = "InvalidLengthField"
    /\ res.result.err.found = [hi |-> 65535, lo |-> 65535]

---------------------------------------------------------------------------
(* png.rs: the container.  A Png is [header, chunks].                      *)

STANDARD_HEADER == <<137, 80, 78, 71, 13, 10, 26, 10>>

None == [some |-> FALSE]

Some(x) == [some |-> TRUE, val |-> x]

\* The span of the chunk that starts at bytes[pos]: 12 bytes and its
\* length field, or what is left when that is less
SpanAt(bytes, pos) ==
    LET left == Len(bytes) - pos + 1
        len == from_be_bytes(SubSeq(bytes, pos, pos + 3))
    IN  IF left < 12 \/ len.hi > 0 \/ 12 + len.lo > left
        THEN left
        ELSE 12 + len.lo

RECURSIVE ParseChunks(_, _, _)

\* The chunk r parsed at place next is kept and the rest parsed, or its
\* failure returned with its index
ParseRest(bytes, next, acc, r) ==
    IF ~r.ok
    THEN Err([kind |-> "ChunkParseFailed", index |-> Len(acc), cause |-> r.err])
    ELSE ParseChunks(bytes, next, Append(acc, r.val))

\* The chunks of bytes[pos ..], after the chunks acc
ParseChunks(bytes, pos, acc) ==
    IF pos > Len(bytes) THEN Ok(acc)
    ELSE ParseRest(bytes, pos + SpanAt(bytes, pos), acc,
                   Chunk_try_from(
                       SubSeq(bytes, pos, pos + SpanAt(bytes, pos) - 1)))

Png_from_chunks(cs) ==
    IF cs.ok
    THEN Ok([header |-> STANDARD_HEADER, chunks |-> cs.val])
    ELSE cs

\* impl TryFrom<&[u8]> for Png
Png_try_from(bytes) ==
    IF Len(bytes) < 8 \/ SubSeq(bytes, 1, 8) # STANDARD_HEADER
    THEN Err([kind |-> "BadSignature"])
    ELSE Png_from_chunks(ParseChunks(bytes, 9, <<>>))

RECURSIVE ConcatChunks(_)
ConcatChunks(cs) ==
    IF cs = <<>> THEN <<>> ELSE as_bytes(Head(cs)) \o ConcatChunks(Tail(cs))

\* Png::as_bytes
Png_as_bytes(png) == png.header \o ConcatChunks(png.chunks)

\* Png::append_chunk
append_chunk(png, c) == [png EXCEPT !.chunks = Append(png.chunks, c)]

\* The places of the chunks whose type reads as the text
Matching(png, chunk_type) ==
    {i \in 1..Len(png.chunks) :
        ChunkType_to_string(png.chunks[i].chunk_type) = chunk_type}

Min(S) == CHOOSE i \in S : \A j \in S : i <= j

\* Png::chunk_by_type
chunk_by_type(png, chunk_type) ==
    IF Matching(png, chunk_type) = {}
    THEN None
    ELSE Some(png.chunks[Min(Matching(png, chunk_type))])

\* The container without its chunk i, and that chunk
remove_chunk_at(png, i) ==
    [png |-> [png EXCEPT !.chunks =
                SubSeq(png.chunks, 1, i - 1)
                    \o SubSeq(png.chunks, i + 1, Len(png.chunks))],
     removed |-> png.chunks[i]]

\* Png::remove_first_chunk: the container left and the chunk taken out
remove_first_chunk(png, chunk_type) ==
    IF Matching(png, chunk_type) = {}
    THEN Err([kind |-> "ChunkNotFound"])
    ELSE Ok(remove_chunk_at(png, Min(Matching(png, chunk_type))))

---------------------------------------------------------------------------
(* commands.rs.  A command is given the files and returns the files it     *)
(* leaves, its result and what it printed.  Creating and writing a file    *)
(* succeed: the directory is writable.                                     *)

File(bytes) == [exists |-> TRUE, bytes |-> bytes]

\* `?` on a Result<Png, PngError>: From<PngError> for PngMeError
png_or_error(png) ==
    IF png.ok THEN png ELSE Err([kind |-> "Png", source |-> png.err])

\* fn file_to_png
file_to_png(files, file) ==
    IF ~files[file].exists
    THEN Err([kind |-> "File", source |-> "NotFound"])
    ELSE png_or_error(Png_try_from(files[file].bytes))

\* The container always written back to the file it was read from
encode_write_in_place(files, file, output, png, c) ==
    [fs |-> [files EXCEPT ![file] = File(Png_as_bytes(append_chunk(png, c)))],
     ret |-> Ok("unit")]

\* encode, lines 19-32: the chunk is appended and the container written to
\* the output, or to the file when no output is given
encode_write(files, file, output, png, c) ==
    [fs |-> [files EXCEPT ![IF output.some THEN output.val ELSE file] =
                File(Png_as_bytes(append_chunk(png, c)))],
     ret |-> Ok("unit")]

\* encode, lines 16-32, with the container read and the type parsed
encode_chunk(files, file, message, output, png, ct) ==
    IF ~png.ok THEN [fs |-> files, ret |-> png]
    ELSE IF ~ct.ok
    THEN [fs |-> files, ret |-> Err([kind |-> "ChunkType", source |-> ct.err])]
    ELSE encode_write(files, file, output, png.val,
                      Chunk_new(ct.val, str_as_bytes(message)))

\* pub fn encode
encode(files, file, chunk_type, message, output) ==
    encode_chunk(files, file, message, output,
                 file_to_png(files, file), ChunkType_from_str(chunk_type))

\* A chunk that is not found returned as an error
decode_print_or_fail(chunk_type, found) ==
    IF found.some
    THEN [ret |-> Ok("unit"),
          out |-> Some([stream |-> "stdout", chunk |-> found.val])]
    ELSE [ret |-> Err([kind |-> "Png", source |-> [kind |-> "ChunkNotFound"]]),
          out |-> None]

\* decode, lines 38-44: the chunk found is printed, or that none was
decode_print(chunk_type, found) ==
    IF found.some
    THEN [ret |-> Ok("unit"),
          out |-> Some([stream |-> "stdout", chunk |-> found.val])]
    ELSE [ret |-> Ok("unit"),
          out |-> Some([stream |-> "stderr", not_found |-> chunk_type])]

\* decode, lines 36-44, with the container read
decode_png(png, chunk_type) ==
    IF ~png.ok THEN [ret |-> png, out |-> None]
    ELSE decode_print(chunk_type, chunk_by_type(png.val, chunk_type))

\* pub fn decode
decode(files, file, chunk_type) ==
    decode_png(file_to_png(files, file), chunk_type)

\* remove, lines 50-55: the container left is written back to the file
remove_write(files, file, r) ==
    IF ~r.ok
    THEN [fs |-> files,
          ret |-> Err([kind |-> "Png", source |-> r.err]),
          removed |-> None]
    ELSE [fs |-> [files EXCEPT ![file] = File(Png_as_bytes(r.val.png))],
          ret |-> Ok("unit"),
          removed |-> Some(r.val.removed)]

\* remove, lines 48-55, with the container read
remove_png(files, file, png, chunk_type) ==
    IF ~png.ok THEN [fs |-> files, ret |-> png, removed |-> None]
    ELSE remove_write(files, file, remove_first_chunk(png.val, chunk_type))

\* pub fn remove
remove(files, file, chunk_type) ==
    remove_png(files, file, file_to_png(files, file), chunk_type)

\* print, lines 59-63, with the container read
print_png(png) ==
    IF ~png.ok THEN [ret |-> png, out |-> None]
    ELSE [ret |-> Ok("unit"),
          out |-> Some([stream |-> "stdout", png |-> png.val])]

\* pub fn print
print(files, file) == print_png(file_to_png(files, file))

---------------------------------------------------------------------------
(* Spec: the commands of main.rs run one after the other on the files      *)

MaxChunks == 2

Files == {"in.png", "output.png"}

\* The IEND chunk, and "ruSt" chunks holding "a" and "b", as bytes on disk
IEND_BYTES == <<0, 0, 0, 0, 73, 69, 78, 68, 174, 66, 96, 130>>

RUST_A_BYTES == <<0, 0, 0, 1, 114, 117, 83, 116, 97, 6, 205, 105, 201>>

RUST_B_BYTES == <<0, 0, 0, 1, 114, 117, 83, 116, 98, 159, 196, 56, 115>>

\* What in.png may hold at the start: nothing, no signature, the signature
\* alone, whole chunks, a chunk cut short, a chunk with a wrong crc
InitFiles ==
    {NoFile,
     File(<<80, 78, 71>>),
     File(STANDARD_HEADER),
     File(STANDARD_HEADER \o IEND_BYTES),
     File(STANDARD_HEADER \o RUST_A_BYTES \o IEND_BYTES \o RUST_B_BYTES),
     File(STANDARD_HEADER \o SubSeq(IEND_BYTES, 1, 10)),
     File(STANDARD_HEADER \o SubSeq(IEND_BYTES, 1, 11) \o <<131>>)}

\* "ruSt" and "Ru1t"
EncodeTypes == {<<114, 117, 83, 116>>, <<82, 117, 49, 116>>}

\* "ruSt" and "IEND"
LookupTypes == {<<114, 117, 83, 116>>, <<73, 69, 78, 68>>}

\* "h" followed by U+00E9, which takes two bytes in UTF-8
Messages == {<<104, 233>>}

Outputs == {None, Some("output.png")}

\* the type of chunk c reads as the text t
TypeIs(c, t) == c.chunk_type.bytes = t

\* The container has room for one more chunk (the bound of the model)
Room(png) == png.ok => Len(png.val.chunks) < MaxChunks

\* No chunk of the container has the type
Lacks(png, chunk_type) ==
    \A i \in 1..Len(png.chunks) : ~TypeIs(png.chunks[i], chunk_type)

\* main, lines 56-73: encode has run on the container png and returned r
Encoded(file, chunk_type, message, output, png, r) ==
    /\ Room(png)
    /\ fs' = r.fs
    /\ last' = [cmd |-> "encode", file |-> file, chunk_type |-> chunk_type,
                message |-> message, output |-> output, ret |-> r.ret]
    /\ e2e' = IF r.ret.ok /\ Lacks(png.val, chunk_type)
              THEN [stage |-> "appended",
                    file |-> IF output.some THEN output.val ELSE file,
                    chunk_type |-> chunk_type,
                    message |-> message,
                    base |-> png.val.chunks]
              ELSE NoScenario
    /\ UNCHANGED <<tbytes, tres, chunk, value, edits, res>>

\* Commands::Encode on a file, read once for every argument tried
EncodeFile(file, png) ==
    \E chunk_type \in EncodeTypes, message \in Messages, output \in Outputs :
        Encoded(file, chunk_type, message, output, png,
                encode_chunk(fs, file, message, output, png,
                             ChunkType_from_str(chunk_type)))

\* Commands::Encode
Encode == \E file \in Files : EncodeFile(file, file_to_png(fs, file))

\* The scenario moves from one stage to the next when the command is run
\* on its file and type, and ends otherwise
Advance(from, to, file, chunk_type) ==
    IF e2e.stage = from /\ e2e.file = file /\ e2e.chunk_type = chunk_type
    THEN [e2e EXCEPT !.stage = to]
    ELSE NoScenario

\* main, lines 74-78: decode has run and returned r
Decoded(file, chunk_type, r) ==
    /\ last' = [cmd |-> "decode", file |-> file, chunk_type |-> chunk_type,
                ret |-> r.ret, out |-> r.out]
    /\ e2e' = Advance("appended", "found", file, chunk_type)
    /\ UNCHANGED <<tbytes, tres, chunk, value, edits, res, fs>>

DecodeFile(file, png) ==
    \E chunk_type \in LookupTypes :
        Decoded(file, chunk_type, decode_png(png, chunk_type))

\* Commands::Decode
Decode == \E file \in Files : DecodeFile(file, file_to_png(fs, file))

\* main, lines 79-83: remove has run and returned r
Removed(file, chunk_type, r) ==
    /\ fs' = r.fs
    /\ last' = [cmd |-> "remove", file |-> file, chunk_type |-> chunk_type,
                ret |-> r.ret, removed |-> r.removed]
    /\ e2e' = Advance("found", "removed", file, chunk_type)
    /\ UNCHANGED <<tbytes, tres, chunk, value, edits, res>>

RemoveFile(file, png) ==
    \E chunk_type \in LookupTypes :
        Removed(file, chunk_type, remove_png(fs, file, png, chunk_type))

\* Commands::Remove
Remove == \E file \in Files : RemoveFile(file, file_to_png(fs, file))

\* main, lines 84-88: print has run and returned r
Printed(file, r) ==
    /\ last' = [cmd |-> "print", file |-> file, ret |-> r.ret, out |-> r.out]
    /\ e2e' = NoScenario
    /\ UNCHANGED <<tbytes, tres, chunk, value, edits, res, fs>>

\* Commands::Print
PrintFile == \E file \in Files : Printed(file, print(fs, file))

Init ==
    /\ TypeIdle
    /\ ChunkIdle
    /\ \E f \in InitFiles :
        fs = [p \in Files |-> IF p = "in.png" THEN f ELSE NoFile]
    /\ last = NoCommand
    /\ e2e = NoScenario

Next == Encode \/ Decode \/ Remove \/ PrintFile

Spec == Init /\ [][Next]_vars

\* The chunks the file holds (when it parses)
ChunksOf(files, file) == file_to_png(files, file).val.chunks

\* The places of the chunks of cs whose type reads as the text t
PlacesOf(cs, t) == {i \in 1..Len(cs) : TypeIs(cs[i], t)}

\* cs without its element i, the others in their order
Without(cs, i) == [k \in 1..(Len(cs) - 1) |-> IF k < i THEN cs[k] ELSE cs[k + 1]]

\* C2: a container obtained from a successful parse (here the one print
\* read from a file), serialized and parsed again, parses and is the same
\* container: same signature, same chunks in the same order.
C2_ContainerRoundTrip ==
    (last.cmd = "print" /\ last.ret.ok) =>
        LET p == last.out.val.png
            again == Png_try_from(Png_as_bytes(p))
        IN  /\ again.ok
            /\ again.val.header = p.header
            /\ again.val.chunks = p.chunks

\* print has read a container of three chunks
C2_Witness ==
    /\ last.cmd = "print"
    /\ last.ret.ok
    /\ Len(last.out.val.png.chunks) = 3

\* What remove (step l) owes for the chunks it read, with the places of
\* those of the type, and for the container it left in the file
RemovedFirst(before, places, l, after, untouched) ==
    IF places # {}
    THEN \E i \in places :
            /\ \A j \in places : i <= j
            /\ l.ret.ok
            /\ l.removed = Some(before[i])
            /\ after.ok
            /\ after.val.chunks = Without(before, i)
    ELSE /\ ~l.ret.ok
         /\ l.ret.err.source.kind = "ChunkNotFound"
         /\ untouched

RemoveLaw(read, l, after, untouched) ==
    read.ok => RemovedFirst(read.val.chunks,
                            PlacesOf(read.val.chunks, l.chunk_type),
                            l, after, untouched)

\* C7: remove on a container that holds a chunk of the type takes out and
\* returns the first such chunk and leaves the others in their order;
\* on a container that holds none it fails with ChunkNotFound.
C7_RemoveFirst ==
    [][last'.cmd = "remove" =>
            RemoveLaw(file_to_png(fs, last'.file), last',
                      file_to_png(fs', last'.file), fs' = fs)]_vars

\* The first "ruSt" chunk, holding "a", was removed, and IEND and the
\* "ruSt" chunk holding "b" are left in this order
C7_Witness ==
    /\ last.cmd = "remove"
    /\ last.ret.ok
    /\ last.removed.val.data = <<97>>
    /\ fs[last.file].bytes = STANDARD_HEADER \o IEND_BYTES \o RUST_B_BYTES

\* What decode (step l) owes for the chunks it read, with the places of
\* those of the type
FoundFirst(before, places, l) ==
    /\ l.ret.ok
    /\ IF places # {}
       THEN \E i \in places :
                /\ \A j \in places : i <= j
                /\ l.out.val.stream = "stdout"
                /\ l.out.val.chunk = before[i]
       ELSE l.out.val.stream = "stderr"

FindLaw(read, l) ==
    read.ok => FoundFirst(read.val.chunks,
                          PlacesOf(read.val.chunks, l.chunk_type), l)

\* C8: decode finds the first chunk, in sequence order, whose type reads
\* as the text; when there is none it finds nothing and this is no error;
\* the chunks of the container are left as they were either way.
C8_FindFirst ==
    [][last'.cmd = "decode" =>
            /\ fs' = fs
            /\ FindLaw(file_to_png(fs, last'.file), last')]_vars

\* Of the two "ruSt" chunks of a file the first one, holding "a", was found
C8_Witness ==
    /\ last.cmd = "decode"
    /\ last.ret.ok
    /\ last.out.val.stream = "stdout"
    /\ last.out.val.chunk.data = <<97>>
    /\ Cardinality(PlacesOf(ChunksOf(fs, last.file), last.chunk_type)) = 2

\* C9: from a container with no chunk of type T, after encode has appended
\* Chunk::new(T, m) the file written parses and the new chunk is its last;
\* decode of T on that file then finds a chunk whose data is m; remove of
\* T then succeeds and leaves the chunks there were before the append.
C9_EmbedExtractRemove ==
    /\ e2e.stage = "appended" =>
        /\ file_to_png(fs, e2e.file).ok
        /\ Len(ChunksOf(fs, e2e.file)) = Len(e2e.base) + 1
        /\ SubSeq(ChunksOf(fs, e2e.file), 1, Len(e2e.base)) = e2e.base
        /\ TypeIs(ChunksOf(fs, e2e.file)[Len(e2e.base) + 1], e2e.chunk_type)
        /\ ChunksOf(fs, e2e.file)[Len(e2e.base) + 1].data
                = str_as_bytes(e2e.message)
    /\ e2e.stage = "found" =>
        /\ last.ret.ok
        /\ last.out.val.stream = "stdout"
        /\ last.out.val.chunk.data = str_as_bytes(e2e.message)
    /\ e2e.stage = "removed" =>
        /\ last.ret.ok
        /\ file_to_png(fs, e2e.file).ok
        /\ ChunksOf(fs, e2e.file) = e2e.base

\* The three commands have run in a row on a container that held IEND
C9_Witness ==
    /\ e2e.stage = "removed"
    /\ Len(e2e.base) = 1
    /\ str_as_bytes(e2e.message) = <<104, 195, 169>>
    /\ fs[e2e.file].bytes = STANDARD_HEADER \o IEND_BYTES

\* C10 as stated: encode run with no output writes the container with the
\* appended chunk to output.png and leaves the input file as it was.
C10_DefaultOutputPng ==
    [][(/\ last'.cmd = "encode"
        /\ ~last'.output.some
        /\ last'.ret.ok
        /\ last'.file # "output.png") =>
            /\ fs'[last'.file] = fs[last'.file]
            /\ fs'["output.png"].exists
            /\ Len(ChunksOf(fs', "output.png"))
                    = Len(ChunksOf(fs, last'.file)) + 1
      ]_vars

---------------------------------------------------------------------------
(* SpecCrc: the chunks of both uses of the program, the Chunk type used    *)
(* on its own (no file is there) and the commands run on the files         *)

ChunkUse == DOMAIN fs = {}

CrcInit == ChunkInit \/ Init

CrcNext ==
    \/ ChunkUse /\ ChunkNew
    \/ ChunkUse /\ ChunkAsBytes
    \/ ChunkUse /\ FlipBit
    \/ ChunkUse /\ SetLengthField
    \/ ChunkUse /\ Resize
    \/ ChunkUse /\ ChunkTryFrom
    \/ ChunkUse /\ ChunkReserialize
    \/ ~ChunkUse /\ Encode
    \/ ~ChunkUse /\ Decode
    \/ ~ChunkUse /\ Remove
    \/ ~ChunkUse /\ PrintFile

SpecCrc == CrcInit /\ [][CrcNext]_vars

\* The CRC-32 of the 4 type bytes of c followed by its data bytes
CrcOf(c) == checksum(c.chunk_type.bytes \o c.data)

CrcHolds(c) == c.crc = CrcOf(c)

\* The place in the file of the last byte of chunk i of cs
RECURSIVE FrameEnd(_, _)
FrameEnd(cs, i) ==
    IF i = 0 THEN Len(STANDARD_HEADER)
    ELSE FrameEnd(cs, i - 1) + MIN_CHUNK_SIZE + Len(cs[i].data)

\* The 4 bytes that end a slice
CrcField(v) == SubSeq(v, Len(v) - 3, Len(v))

\* Every chunk parsed from the bytes has the crc of its type and data, and
\* the crc field of its frame in the bytes is this crc
ContainerCrcHolds(bytes, cs) ==
    \A i \in 1..Len(cs) :
        /\ CrcHolds(cs[i])
        /\ CrcField(SubSeq(bytes, 1, FrameEnd(cs, i))) = to_be_bytes(cs[i].crc)

FileCrcHolds(bytes, png) ==
    png.ok => ContainerCrcHolds(bytes, png.val.chunks)

\* The chunks the last command gave out
LastCrcHolds(l) ==
    /\ (l.cmd = "decode" /\ l.out.some /\ l.out.val.stream = "stdout")
            => CrcHolds(l.out.val.chunk)
    /\ (l.cmd = "remove" /\ l.removed.some) => CrcHolds(l.removed.val)
    /\ (l.cmd = "print" /\ l.out.some) =>
            \A i \in 1..Len(l.out.val.png.chunks) :
                CrcHolds(l.out.val.png.chunks[i])

\* C11: in every reachable state every chunk (built by Chunk::new,
\* returned by a successful parse, held in a container read from a file
\* after any appends and removes, or given out by a command) has as crc
\* the CRC-32 of its 4 type bytes followed by its data; the crc of a chunk
\* that a parse returned is also the trailing crc field of the bytes parsed.
C11_CrcInvariant ==
    /\ chunk # NoChunk => CrcHolds(chunk)
    /\ (res.done /\ res.result.ok) =>
            /\ CrcHolds(res.result.val)
            /\ CrcField(value) = to_be_bytes(res.result.val.crc)
    /\ \A f \in DOMAIN fs :
            fs[f].exists => FileCrcHolds(fs[f].bytes, Png_try_from(fs[f].bytes))
    /\ LastCrcHolds(last)

\* A chunk built by Chunk::new was appended, written, parsed and removed
\* again, and the container left in the file still holds a chunk
C11_Witness ==
    /\ ~ChunkUse
    /\ last.cmd = "remove"
    /\ last.removed.some
    /\ last.removed.val.data = <<104, 195, 169>>
    /\ fs[last.file].exists
    /\ Png_try_from(fs[last.file].bytes).ok
    /\ Len(Png_try_from(fs[last.file].bytes).val.chunks) >= 1

===========================================================================
